---- MODULE Spec2Model ----
(***************************************************************************)
(* Model of system_architecture/solid/main.go: five independent examples   *)
(* (BookPrint, Discount, Shape, Printer/Scanner, Storage/DataManager) and  *)
(* the entry point main that runs them in sequence.                        *)
(*                                                                         *)
(* Standard output is the sequence `out` of the lines written so far.      *)
(* A float64 is modelled as a decimal fixed-point number: the integer v    *)
(* stands for v / Scale.  Products round to the nearest representable      *)
(* value (ties to even), as IEEE-754 multiplication does at its own        *)
(* resolution.                                                             *)
(*                                                                         *)
(* A behaviour is either the run of main (mode = "main", pc walks the      *)
(* statements of main) or a sequence of calls of the package's operations  *)
(* with arbitrary arguments (mode = "calls").                              *)
(***************************************************************************)
EXTENDS Integers, Sequences, FiniteSets, TLC

VARIABLES mode, pc, out, book, managers, call, ret, panicked

vars == <<mode, pc, out, book, managers, call, ret, panicked>>

(* ------------------------------ bounds -------------------------------- *)

\* longest output a sequence of calls may produce
MaxOut == 2
\* most DataManagers a sequence of calls may construct
MaxManagers == 2

(* ----------------------------- float64 -------------------------------- *)

\* fixed-point resolution: v stands for v / Scale
Scale == 1000

\* float64 multiplication, rounded to nearest, ties to even
FMul(a, b) ==
    LET p == a * b
        q == p \div Scale
        r == p % Scale
    IN  IF 2 * r > Scale \/ (2 * r = Scale /\ q % 2 = 1) THEN q + 1 ELSE q

\* the literals of the source as float64 values
Lit_0_9 == 900
Lit_0_8 == 800
Lit_3_14 == 3140

(* ------------------------------- fmt ---------------------------------- *)

RECURSIVE JoinSpace(_)
\* operands of Println separated by one space
JoinSpace(args) ==
    IF Len(args) = 0 THEN ""
    ELSE IF Len(args) = 1 THEN args[1]
    ELSE args[1] \o " " \o JoinSpace(Tail(args))

\* fmt.Println: one line made of the operands
Println(o, args) == Append(o, JoinSpace(args))

\* the verb %s applied to a string
FmtS(s) == s

\* the verb %.2f applied to a non-negative float64
Fmt2f(x) ==
    LET p == x * 100
        q == p \div Scale
        r == p % Scale
        cents == IF 2 * r > Scale \/ (2 * r = Scale /\ q % 2 = 1) THEN q + 1 ELSE q
        frac == cents % 100
    IN  ToString(cents \div 100) \o "." \o
        (IF frac < 10 THEN "0" ELSE "") \o ToString(frac)

(* ----------------------------- BookPrint ------------------------------ *)

BookPrint(title, author) == [Title |-> title, Author |-> author]

\* PrintDetails with the two arguments of Printf exchanged
PrintDetails_Swapped(o, b) ==
    Append(o, "Title: " \o FmtS(b.Author) \o ", Author: " \o FmtS(b.Title))

\* func (b BookPrint) PrintDetails(): the output after the call
PrintDetails(o, b) ==
    Append(o, "Title: " \o FmtS(b.Title) \o ", Author: " \o FmtS(b.Author))

(* ------------------------------ Discount ------------------------------ *)

\* the regular discount with the holiday rate
RegularDiscount_ApplyDiscount_Holiday(price) == FMul(price, Lit_0_8)

RegularDiscount_ApplyDiscount(price) == FMul(price, Lit_0_9)

HolidayDiscount_ApplyDiscount(price) == FMul(price, Lit_0_8)

\* a call through the Discount interface
Discount_ApplyDiscount(d, price) ==
    IF d = "RegularDiscount" THEN RegularDiscount_ApplyDiscount(price)
    ELSE HolidayDiscount_ApplyDiscount(price)

(* ------------------------------- Shape -------------------------------- *)

Square_Area(width) == FMul(width, width)

\* the area of a circle with pi to four digits
Circle_Area_Pi(radius) == FMul(FMul(3142, radius), radius)

Circle_Area(radius) == FMul(FMul(Lit_3_14, radius), radius)

\* a call through the Shape interface
Shape_Area(s, dim) ==
    IF s = "Square" THEN Square_Area(dim) ELSE Circle_Area(dim)

(* ------------------------- Printer and Scanner ------------------------ *)

MyPrinter_Print(o) == Println(o, <<"Printing...">>)

\* Scan writing its line twice
MyScanner_Scan_Twice(o) == Println(Println(o, <<"Scanning...">>), <<"Scanning...">>)

MyScanner_Scan(o) == Println(o, <<"Scanning...">>)

\* MyMultiFunctionDevice embeds MyPrinter and MyScanner: both methods are
\* promoted from the embedded fields
MyMultiFunctionDevice_Print(o) == MyPrinter_Print(o)

\* Scan promoted from the wrong embedded field
MyMultiFunctionDevice_Scan_Printer(o) == MyPrinter_Print(o)

MyMultiFunctionDevice_Scan(o) == MyScanner_Scan(o)

(* ------------------------------ Storage ------------------------------- *)

\* the nil interface value
Nil == "nil"

Database_Save(o, data) == Println(o, <<"Saving data to the database:", data>>)

Filesystem_Save(o, data) == Println(o, <<"Saving data to the filesystem:", data>>)

\* a Storage call that always reaches the database
Storage_Save_Database(s, o, data) == Database_Save(o, data)

\* a call through a non-nil Storage interface
Storage_Save(s, o, data) ==
    IF s = "Database" THEN Database_Save(o, data) ELSE Filesystem_Save(o, data)

\* func NewDataManager(storage Storage) *DataManager: the managers after it
NewDataManager(ms, storage) == Append(ms, storage)

\* SaveData that re-binds the manager to the database after saving
DataManager_SaveData_Rebind(i, data) ==
    /\ managers' = [managers EXCEPT ![i] = "Database"]
    /\ IF managers[i] = Nil
       THEN /\ panicked' = TRUE
            /\ out' = out
       ELSE /\ panicked' = FALSE
            /\ out' = Storage_Save(managers[i], out, data)

\* func (dm *DataManager) SaveData(data string) on the manager ms[i]:
\* a nil storage makes the method call panic before anything is written
DataManager_SaveData(i, data) ==
    /\ managers' = managers
    /\ IF managers[i] = Nil
       THEN /\ panicked' = TRUE
            /\ out' = out
       ELSE /\ panicked' = FALSE
            /\ out' = Storage_Save(managers[i], out, data)

(* ------------------------------ inputs -------------------------------- *)

\* the records a sequence of calls may start with: the one of main, and one
\* with an empty title and an author that reads like a formatting verb
Books == {BookPrint("Clean Code", "Robert C. Martin"), BookPrint("", "%s")}
Prices == {0, 100000, 19990}
Widths == {0, 5000, 2500}
Radii == {0, 3000, 2500}
Datas == {"X", ""}
Discounts == {"RegularDiscount", "HolidayDiscount"}
Shapes == {"Square", "Circle"}
Storages == {"Database", "Filesystem", Nil}
PrintVias == {"MyMultiFunctionDevice", "Printer", "MultiFunctionDevice"}
ScanVias == {"MyMultiFunctionDevice", "Scanner", "MultiFunctionDevice"}

NoRet == -1
NoCall == [op |-> "none", recv |-> "", num |-> 0, str |-> "", mgr |-> 0]

Called(op, recv, num, str, mgr) ==
    [op |-> op, recv |-> recv, num |-> num, str |-> str, mgr |-> mgr]

(* ------------------------------- Init --------------------------------- *)

Init ==
    /\ mode \in {"main", "calls"}
    /\ pc = IF mode = "main" THEN "L123" ELSE "calls"
    /\ out = <<>>
    /\ book \in IF mode = "main" THEN {BookPrint("", "")}
                ELSE Books
    /\ managers = <<>>
    /\ call = NoCall
    /\ ret = NoRet
    /\ panicked = FALSE

(* ------------------------ calls of the operations --------------------- *)

Calling == mode = "calls" /\ ~panicked

CallPrintDetails ==
    /\ Calling
    /\ Len(out) < MaxOut
    /\ out' = PrintDetails(out, book)
    /\ call' = Called("PrintDetails", "BookPrint", 0, "", 0)
    /\ ret' = NoRet
    /\ UNCHANGED <<mode, pc, book, managers, panicked>>

\* ApplyDiscount that logs the price it was given
CallApplyDiscount_Logging(d, price) ==
    /\ Calling
    /\ Len(out) < MaxOut
    /\ ret' = Discount_ApplyDiscount(d, price)
    /\ out' = Println(out, <<"Applying discount">>)
    /\ call' = Called("ApplyDiscount", d, price, "", 0)
    /\ UNCHANGED <<mode, pc, book, managers, panicked>>

CallApplyDiscount(d, price) ==
    /\ Calling
    /\ ret' = Discount_ApplyDiscount(d, price)
    /\ call' = Called("ApplyDiscount", d, price, "", 0)
    /\ UNCHANGED <<mode, pc, out, book, managers, panicked>>

CallArea(s, dim) ==
    /\ Calling
    /\ ret' = Shape_Area(s, dim)
    /\ call' = Called("Area", s, dim, "", 0)
    /\ UNCHANGED <<mode, pc, out, book, managers, panicked>>

CallPrint(via) ==
    /\ Calling
    /\ Len(out) < MaxOut
    /\ out' = MyMultiFunctionDevice_Print(out)
    /\ call' = Called("Print", via, 0, "", 0)
    /\ ret' = NoRet
    /\ UNCHANGED <<mode, pc, book, managers, panicked>>

CallScan(via) ==
    /\ Calling
    /\ Len(out) < MaxOut
    /\ out' = MyMultiFunctionDevice_Scan(out)
    /\ call' = Called("Scan", via, 0, "", 0)
    /\ ret' = NoRet
    /\ UNCHANGED <<mode, pc, book, managers, panicked>>

CallSave(s, data) ==
    /\ Calling
    /\ Len(out) < MaxOut
    /\ out' = Storage_Save(s, out, data)
    /\ call' = Called("Save", s, 0, data, 0)
    /\ ret' = NoRet
    /\ UNCHANGED <<mode, pc, book, managers, panicked>>

CallNewDataManager(s) ==
    /\ Calling
    /\ Len(managers) < MaxManagers
    /\ managers' = NewDataManager(managers, s)
    /\ call' = Called("NewDataManager", s, 0, "", Len(managers) + 1)
    /\ ret' = NoRet
    /\ UNCHANGED <<mode, pc, out, book, panicked>>

CallSaveData(i, data) ==
    /\ Calling
    /\ Len(out) < MaxOut
    /\ DataManager_SaveData(i, data)
    /\ call' = Called("SaveData", managers[i], 0, data, i)
    /\ ret' = NoRet
    /\ UNCHANGED <<mode, pc, book>>

Calls ==
    \/ CallPrintDetails
    \/ \E d \in Discounts, p \in Prices : CallApplyDiscount(d, p)
    \/ \E w \in Widths : CallArea("Square", w)
    \/ \E r \in Radii : CallArea("Circle", r)
    \/ \E via \in PrintVias : CallPrint(via)
    \/ \E via \in ScanVias : CallScan(via)
    \/ \E s \in Storages \ {Nil}, x \in Datas : CallSave(s, x)
    \/ \E s \in Storages : CallNewDataManager(s)
    \/ \E i \in 1..Len(managers), x \in Datas : CallSaveData(i, x)

(* --------------------------- func main() ------------------------------ *)

\* the statement at pc is about to run in the run of main
At(l) == mode = "main" /\ pc = l /\ ~panicked

\* a statement of main that writes with fmt.Printf
Printf(o, line) == Append(o, line)

\* discountPrice := 100.0
discountPrice == 100000
\* square := Square{Width: 5}
square == 5000
\* circle := Circle{Radius: 3}
circle == 3000

\* book := BookPrint{Title: "Clean Code", Author: "Robert C. Martin"}
Main_L123 ==
    /\ At("L123")
    /\ book' = BookPrint("Clean Code", "Robert C. Martin")
    /\ pc' = "L124"
    /\ UNCHANGED <<mode, out, managers, call, ret, panicked>>

\* book.PrintDetails()
Main_L124 ==
    /\ At("L124")
    /\ out' = PrintDetails(out, book)
    /\ call' = Called("PrintDetails", "BookPrint", 0, "", 0)
    /\ pc' = "L128"
    /\ UNCHANGED <<mode, book, managers, ret, panicked>>

\* fmt.Printf("Regular Price: $%.2f, Discounted Price: $%.2f\n", ...)
Main_L128 ==
    /\ At("L128")
    /\ out' = Printf(out, "Regular Price: $" \o Fmt2f(discountPrice)
                 \o ", Discounted Price: $"
                 \o Fmt2f(RegularDiscount_ApplyDiscount(discountPrice)))
    /\ call' = Called("Printf", "fmt", discountPrice, "", 0)
    /\ pc' = "L131"
    /\ UNCHANGED <<mode, book, managers, ret, panicked>>

\* fmt.Printf("Square Area: %.2f\n", square.Area())
Main_L131 ==
    /\ At("L131")
    /\ out' = Printf(out, "Square Area: " \o Fmt2f(Square_Area(square)))
    /\ call' = Called("Printf", "fmt", square, "", 0)
    /\ pc' = "L134"
    /\ UNCHANGED <<mode, book, managers, ret, panicked>>

\* fmt.Printf("Circle Area: %.2f\n", circle.Area())
Main_L134 ==
    /\ At("L134")
    /\ out' = Printf(out, "Circle Area: " \o Fmt2f(Circle_Area(circle)))
    /\ call' = Called("Printf", "fmt", circle, "", 0)
    /\ pc' = "L137"
    /\ UNCHANGED <<mode, book, managers, ret, panicked>>

\* the two device calls of main exchanged
Main_L137_Scan ==
    /\ At("L137")
    /\ out' = MyMultiFunctionDevice_Scan(out)
    /\ call' = Called("Scan", "MyMultiFunctionDevice", 0, "", 0)
    /\ pc' = "L138"
    /\ UNCHANGED <<mode, book, managers, ret, panicked>>

\* multiFunctionDevice.Print()
Main_L137 ==
    /\ At("L137")
    /\ out' = MyMultiFunctionDevice_Print(out)
    /\ call' = Called("Print", "MyMultiFunctionDevice", 0, "", 0)
    /\ pc' = "L138"
    /\ UNCHANGED <<mode, book, managers, ret, panicked>>

\* multiFunctionDevice.Scan()
Main_L138 ==
    /\ At("L138")
    /\ out' = MyMultiFunctionDevice_Scan(out)
    /\ call' = Called("Scan", "MyMultiFunctionDevice", 0, "", 0)
    /\ pc' = "L143"
    /\ UNCHANGED <<mode, book, managers, ret, panicked>>

\* dataManagerDB := NewDataManager(db)
Main_L143 ==
    /\ At("L143")
    /\ managers' = NewDataManager(managers, "Database")
    /\ call' = Called("NewDataManager", "Database", 0, "", Len(managers) + 1)
    /\ pc' = "L144"
    /\ UNCHANGED <<mode, out, book, ret, panicked>>

\* dataManagerFS := NewDataManager(fs)
Main_L144 ==
    /\ At("L144")
    /\ managers' = NewDataManager(managers, "Filesystem")
    /\ call' = Called("NewDataManager", "Filesystem", 0, "", Len(managers) + 1)
    /\ pc' = "L146"
    /\ UNCHANGED <<mode, out, book, ret, panicked>>

\* dataManagerDB.SaveData("Data to save with Database storage")
Main_L146 ==
    /\ At("L146")
    /\ DataManager_SaveData(1, "Data to save with Database storage")
    /\ call' = Called("SaveData", managers[1], 0,
                      "Data to save with Database storage", 1)
    /\ pc' = "L147"
    /\ UNCHANGED <<mode, book, ret>>

\* dataManagerFS.SaveData("Data to save with Filesystem storage")
Main_L147 ==
    /\ At("L147")
    /\ DataManager_SaveData(2, "Data to save with Filesystem storage")
    /\ call' = Called("SaveData", managers[2], 0,
                      "Data to save with Filesystem storage", 2)
    /\ pc' = "done"
    /\ UNCHANGED <<mode, book, ret>>

Main ==
    \/ Main_L123
    \/ Main_L124
    \/ Main_L128
    \/ Main_L131
    \/ Main_L134
    \/ Main_L137
    \/ Main_L138
    \/ Main_L143
    \/ Main_L144
    \/ Main_L146
    \/ Main_L147

Next == Calls \/ Main

Spec == Init /\ [][Next]_vars

\* main runs to its end: a started statement completes and the next begins
FairSpec == Spec /\ WF_vars(Main)

(* ------------------------------ claims -------------------------------- *)

IsPrefix(p, q) == Len(p) <= Len(q) /\ SubSeq(q, 1, Len(p)) = p

\* the label a backend writes in front of the data
Label(v) ==
    IF v = "Database" THEN "Saving data to the database: "
    ELSE "Saving data to the filesystem: "

\* C1: SaveData on a manager bound to Database or Filesystem appends exactly
\* one line, the one labelled with the bound backend followed by the data,
\* and never the line of the other backend.
C1_SaveDataCallsBoundStorage ==
    [][(call'.op = "SaveData" /\ managers[call'.mgr] # Nil) =>
          out' = Append(out, Label(managers[call'.mgr]) \o call'.str)]_vars

C1_Witness ==
    /\ mode = "calls"
    /\ call.op = "SaveData"
    /\ call.str = "X"
    /\ managers = <<"Database", "Filesystem">>
    /\ call.mgr = 2
    /\ out = <<"Saving data to the database: X", "Saving data to the filesystem: X">>

\* C2: no operation has a failure state: no call of any operation, with any
\* representable argument, ends in a panic.
C2_NoOperationFails == panicked = FALSE

\* C3 (as stated): one invocation of any of PrintDetails, ApplyDiscount,
\* Area, Print, Scan, Save or SaveData appends exactly one line to the output.
C3_EveryOperationWritesOneLine ==
    [][call'.op \in {"PrintDetails", "ApplyDiscount", "Area", "Print", "Scan",
                     "Save", "SaveData"}
          => Len(out') = Len(out) + 1 /\ IsPrefix(out, out')]_vars

\* C3 (amended): PrintDetails, Print, Scan, Save, and SaveData on a manager
\* bound to a Database or a Filesystem, append exactly one line each;
\* ApplyDiscount and Area append none, and SaveData on a manager whose
\* storage is nil panics without appending a line.
C3_PrintingOperationsWriteOneLine ==
    [][/\ call'.op \in {"PrintDetails", "Print", "Scan", "Save"}
            => Len(out') = Len(out) + 1 /\ IsPrefix(out, out')
       /\ (call'.op = "SaveData" /\ managers[call'.mgr] # Nil)
            => Len(out') = Len(out) + 1 /\ IsPrefix(out, out')
       /\ (call'.op = "SaveData" /\ managers[call'.mgr] = Nil)
            => out' = out /\ panicked'
       /\ call'.op \in {"ApplyDiscount", "Area"} => out' = out]_vars

C3_Witness ==
    /\ mode = "calls"
    /\ call.op = "ApplyDiscount"
    /\ out = <<"Scanning...", "Saving data to the database: ">>

\* C4: the regular discount of a price is 0.9 times the price and the
\* holiday discount 0.8 times the price; main prints the regular discount of
\* 100.0 as "Regular Price: $100.00, Discounted Price: $90.00".
C4_DiscountValues ==
    /\ (call.op = "ApplyDiscount" /\ call.recv = "RegularDiscount")
          => 10 * ret = 9 * call.num
    /\ (call.op = "ApplyDiscount" /\ call.recv = "HolidayDiscount")
          => 10 * ret = 8 * call.num
    /\ (mode = "main" /\ Len(out) >= 2)
          => out[2] = "Regular Price: $100.00, Discounted Price: $90.00"

C4_Witness ==
    /\ call.op = "ApplyDiscount"
    /\ call.recv = "HolidayDiscount"
    /\ call.num = 19990
    /\ ret = 15992

\* C5: the area of a square is width * width and the area of a circle is
\* 3.14 * radius * radius; main prints 25.00 for the square of width 5 and
\* 28.26 for the circle of radius 3.  (The circle equation is
\* 100 * ret * Scale = 314 * num * num with both sides divided by 100.)
C5_AreaValues ==
    /\ (call.op = "Area" /\ call.recv = "Square")
          => ret * Scale = call.num * call.num
    /\ (call.op = "Area" /\ call.recv = "Circle")
          => /\ (call.num * call.num) % 100 = 0
             /\ ret * Scale = 314 * ((call.num * call.num) \div 100)
    /\ (mode = "main" /\ Len(out) >= 3) => out[3] = "Square Area: 25.00"
    /\ (mode = "main" /\ Len(out) >= 4) => out[4] = "Circle Area: 28.26"

C5_Witness ==
    /\ mode = "main"
    /\ pc = "L137"
    /\ Len(out) = 4
    /\ out[4] = "Circle Area: 28.26"

\* C6: PrintDetails appends exactly the line "Title: <title>, Author:
\* <author>" with both fields verbatim and leaves the record unchanged; the
\* first line of main is "Title: Clean Code, Author: Robert C. Martin".
C6_PrintDetailsLine ==
    /\ []((mode = "main" /\ Len(out) >= 1)
            => out[1] = "Title: Clean Code, Author: Robert C. Martin")
    /\ [][call'.op = "PrintDetails" =>
            /\ out' = Append(out, "Title: " \o book.Title \o ", Author: " \o book.Author)
            /\ book' = book]_vars

C6_Witness ==
    /\ call.op = "PrintDetails"
    /\ book = [Title |-> "", Author |-> "%s"]
    /\ Len(out) >= 1
    /\ out[Len(out)] = "Title: , Author: %s"

\* C7: every Print on the combined device appends exactly "Printing..." and
\* every Scan exactly "Scanning...", whatever was called before and through
\* whichever capability the call is made.
C7_DeviceMethodsIndependent ==
    [][/\ call'.op = "Print" => out' = Append(out, "Printing...")
       /\ call'.op = "Scan" => out' = Append(out, "Scanning...")]_vars

C7_Witness ==
    /\ mode = "calls"
    /\ call.op = "Print"
    /\ call.recv = "Printer"
    /\ out = <<"Scanning...", "Printing...">>

\* C8: a manager stays bound to the storage it was constructed with: no
\* step removes a manager or changes the storage of an existing one.
C8_BindingFixed ==
    [][\A i \in 1..Len(managers) :
          i <= Len(managers') /\ managers'[i] = managers[i]]_vars

C8_Witness ==
    /\ mode = "calls"
    /\ call.op = "SaveData"
    /\ call.mgr = 1
    /\ managers = <<"Filesystem", "Database">>
    /\ out = <<"Saving data to the database: X", "Saving data to the filesystem: ">>

\* the eight lines of a complete run of main
MainLines ==
    << "Title: Clean Code, Author: Robert C. Martin",
       "Regular Price: $100.00, Discounted Price: $90.00",
       "Square Area: 25.00",
       "Circle Area: 28.26",
       "Printing...",
       "Scanning...",
       "Saving data to the database: Data to save with Database storage",
       "Saving data to the filesystem: Data to save with Filesystem storage" >>

\* C9: the run of main writes the eight lines in order, one at a time and
\* none twice, and ends with exactly these eight lines written.
C9_MainRunsInOrder ==
    /\ [](mode = "main" => IsPrefix(out, MainLines))
    /\ [][mode = "main" =>
            \/ out' = out
            \/ out' = Append(out, MainLines[Len(out) + 1])]_vars
    /\ (mode = "main") ~> (pc = "done" /\ out = MainLines)

C9_Witness ==
    /\ mode = "main"
    /\ pc = "done"
    /\ Len(out) = 8
    /\ ~panicked

\* C10: ApplyDiscount and Area write nothing and change no state, and their
\* result is a function of the variant and its one input alone.
C10_PureVariants ==
    [][call'.op \in {"ApplyDiscount", "Area"} =>
          /\ out' = out
          /\ book' = book
          /\ managers' = managers
          /\ panicked' = panicked
          /\ ret' = IF call'.op = "ApplyDiscount"
                    THEN Discount_ApplyDiscount(call'.recv, call'.num)
                    ELSE Shape_Area(call'.recv, call'.num)]_vars

C10_Witness ==
    /\ mode = "calls"
    /\ call.op = "Area"
    /\ call.recv = "Circle"
    /\ call.num = 2500
    /\ ret = 19625
    /\ Len(out) >= 1
    /\ Len(managers) >= 1

====
